---------------------------- MODULE Spec2Model ----------------------------
(***************************************************************************)
(* Model of src/src/extension.ts (vscode-devspace): the refresh command    *)
(* updateStatusBar, the state file reader getLastDevspaceNamespaces, the   *)
(* pod enumerator getReplacedContainersInNamespace and the process probe   *)
(* checkSyncCmdRunning, run on the single-threaded event loop: every       *)
(* action is one continuation (the code between two awaits or one          *)
(* callback).                                                              *)
(***************************************************************************)
EXTENDS Naturals, Sequences, FiniteSets, TLC

VARIABLES
    stateFile,   \* .devspace/generated.yaml: [readable, parses, document]
    cluster,     \* namespace -> answer of listNamespacedPod: [ok, items]
    execEnv,     \* container -> behaviour of exec: [mode, status, table]
    epoch,       \* 0, and 1 once the development session has ended
    statusBar,   \* globals.devspaceSyncStatusBar: [text, visible]
    calls        \* invocation id -> the frame of one updateStatusBar() call

vars == <<stateFile, cluster, execEnv, epoch, statusBar, calls>>

---------------------------------------------------------------------------
\* Bounds of the model.

\* Number of invocations of the refresh command (they may overlap).
MaxInvocations == 2
\* Longest "profiles" mapping of the state file.
MaxProfiles == 2
\* Longest process table (lines of ps output) of a container.
MaxLines == 2
\* Largest number of containers over all namespaces of a cluster.
MaxContainers == 2
\* Longest pod list of a namespace, where the pods vary.
MaxPods == 2

Invocations == 1..MaxInvocations

---------------------------------------------------------------------------
\* Values.

\* The value of an optional chain that found nothing (JavaScript undefined).
Undefined == "<undefined>"

NamespaceNames == {"web", "db"}

\* line 175: the prefix a command line is tested against
Signature == "/tmp/devspacehelper sync"

\* line 64
NoSyncText == "Devspace: No Sync"

\* line 57: the template literal `Devspace: Sync to ${v.podName}`
SyncToText(podName) == "Devspace: Sync to " \o podName

\* What vscode.window.createStatusBarItem returns (line 26): no text, hidden.
InitialStatusBar == [text |-> "", visible |-> FALSE]

\* The errors a refresh can reject with.
StateFileUnavailable == "Error: Could not get .devspace/generated.yaml contents."
StateFileMalformed == "YAMLParseError"
NullDocumentError == "TypeError: Cannot read properties of null (reading 'profiles')"
ClusterQueryError == "HttpError"

---------------------------------------------------------------------------
\* Pure functions of the code.

\* JavaScript truthiness of an optional string (lines 92, 120, 167).
Truthy(v) == v # Undefined /\ v # ""

\* String.prototype.startsWith (line 175).
StartsWith(s, prefix) ==
    /\ Len(s) >= Len(prefix)
    /\ SubSeq(s, 1, Len(prefix)) = prefix

\* String.prototype.split("\n") (line 173): the pieces between newlines,
\* the piece after the last newline included.
RECURSIVE SplitFrom(_, _, _)
SplitFrom(s, i, start) ==
    IF i > Len(s)
    THEN <<SubSeq(s, start, Len(s))>>
    ELSE IF SubSeq(s, i, i) = "\n"
         THEN <<SubSeq(s, start, i - 1)>> \o SplitFrom(s, i + 1, i + 1)
         ELSE SplitFrom(s, i + 1, start)

SplitLines(s) == SplitFrom(s, 1, 1)

\* SetAdd as a list: the value is appended whether present or not.
SetAddAlways(seq, x) == Append(seq, x)

\* Set.prototype.add on a Set kept in insertion order (line 93).
SetAdd(seq, x) ==
    IF \E k \in 1..Len(seq) : seq[k] = x THEN seq ELSE Append(seq, x)

\* The loop of lines 90-95 over the profiles of the parsed document, from
\* profile k on; a profile is the value of ?.lastContext?.namespace.
RECURSIVE CollectNamespaces(_, _, _)
CollectNamespaces(profiles, k, acc) ==
    IF k > Len(profiles)
    THEN acc
    ELSE CollectNamespaces(profiles, k + 1,
            IF Truthy(profiles[k]) THEN SetAdd(acc, profiles[k]) ELSE acc)

\* getLastDevspaceNamespaces (lines 71-98) on a state file: the Set it
\* returns (in iteration order) or the error it throws.
LoadFailure(e) == [ok |-> FALSE, error |-> e, namespaces |-> <<>>]

LoadSuccess(ns) == [ok |-> TRUE, error |-> "", namespaces |-> ns]

\* getLastDevspaceNamespaces with a catch (line 77) that returns an empty
\* Set instead of throwing.
getLastDevspaceNamespacesSwallow(file) ==
    IF ~file.readable THEN LoadSuccess(<<>>)
    ELSE IF ~file.parses THEN LoadFailure(StateFileMalformed)
    ELSE IF file.document.isNull THEN LoadFailure(NullDocumentError)
    ELSE IF ~file.document.hasProfiles THEN LoadSuccess(<<>>)
    ELSE LoadSuccess(CollectNamespaces(file.document.profiles, 1, <<>>))

getLastDevspaceNamespaces(file) ==
    IF ~file.readable THEN LoadFailure(StateFileUnavailable)
    ELSE IF ~file.parses THEN LoadFailure(StateFileMalformed)
    ELSE IF file.document.isNull THEN LoadFailure(NullDocumentError)
    ELSE IF ~file.document.hasProfiles THEN LoadSuccess(<<>>)
    ELSE LoadSuccess(CollectNamespaces(file.document.profiles, 1, <<>>))

\* The inner loop of lines 128-134: one Container per declared container.
ContainersOfPod(namespace, pod) ==
    [k \in 1..Len(pod.containers) |->
        [namespace |-> namespace, podName |-> pod.name,
         containerName |-> pod.containers[k]]]

\* SkipsPod without the test of the phase (line 124).
SkipsPodIgnoresPhase(pod) ==
    ~pod.hasMetadata \/ ~Truthy(pod.name) \/ ~pod.hasSpec

\* Lines 120-126: the pods that are skipped.
SkipsPod(pod) ==
    \/ ~pod.hasMetadata \/ ~Truthy(pod.name) \/ ~pod.hasSpec
    \/ ~pod.hasStatus \/ pod.phase # "Running"

\* The loop of lines 118-137 over podList.items, from pod k on.
RECURSIVE ContainersFrom(_, _, _)
ContainersFrom(namespace, items, k) ==
    IF k > Len(items)
    THEN <<>>
    ELSE (IF SkipsPod(items[k]) THEN <<>>
          ELSE ContainersOfPod(namespace, items[k]))
         \o ContainersFrom(namespace, items, k + 1)

getReplacedContainersInNamespace(namespace, items) ==
    ContainersFrom(namespace, items, 1)

\* What ps writes to stdout for a process table: one line per process.
RECURSIVE PsOutput(_)
PsOutput(table) ==
    IF table = <<>> THEN "" ELSE Head(table) \o "\n" \o PsOutput(Tail(table))

\* FirstMatch with the loop running on after a match: the last line with
\* the signature.
RECURSIVE LastMatch(_, _)
LastMatch(bins, k) ==
    IF k > Len(bins) THEN 0
    ELSE LET m == LastMatch(bins, k + 1)
         IN IF m # 0 THEN m
            ELSE IF StartsWith(bins[k], Signature) THEN k ELSE 0

\* The loop of lines 174-178: the first line with the signature, from k on.
RECURSIVE FirstMatch(_, _)
FirstMatch(bins, k) ==
    IF k > Len(bins) THEN 0
    ELSE IF StartsWith(bins[k], Signature) THEN k
    ELSE FirstMatch(bins, k + 1)

\* The loop of lines 166-180 on the contents of the stdout buffer, and the
\* test of res.status before it (line 160): the fields the callback adds to
\* the container.
Negative == [syncRunning |-> FALSE]

Positive(bin) == [syncRunning |-> TRUE, command |-> bin]

\* Outcome without the test of res.status (line 160).
OutcomeIgnoresStatus(status, runningBins) ==
    IF runningBins = "" THEN Negative
    ELSE LET bins == SplitLines(runningBins)
             m == FirstMatch(bins, 1)
         IN IF m = 0 THEN Negative ELSE Positive(bins[m])

Outcome(status, runningBins) ==
    IF status # "Success" THEN Negative
    ELSE IF runningBins = "" THEN Negative
    ELSE LET bins == SplitLines(runningBins)
             m == FirstMatch(bins, 1)
         IN IF m = 0 THEN Negative ELSE Positive(bins[m])

\* The status callback of checkSyncCmdRunning (lines 158-181): the value the
\* probe's promise is resolved with, { ...container, syncRunning, command }.
ProbeResult(container, outcome) == container @@ outcome

---------------------------------------------------------------------------
\* The environments the program is run in.

\* State files.
FileOf(readable, parses, isNull, hasProfiles, profiles) ==
    [readable |-> readable, parses |-> parses,
     document |-> [isNull |-> isNull, hasProfiles |-> hasProfiles,
                   profiles |-> profiles]]

\* readFile rejects; parse throws; parse returns null (an empty document);
\* the document has no profiles (a mapping without the key, or a scalar);
\* the document has profiles.
UnreadableFile == FileOf(FALSE, FALSE, FALSE, FALSE, <<>>)
MalformedFile == FileOf(TRUE, FALSE, FALSE, FALSE, <<>>)
EmptyFile == FileOf(TRUE, TRUE, TRUE, FALSE, <<>>)
NoProfilesFile == FileOf(TRUE, TRUE, FALSE, FALSE, <<>>)
ProfilesFile(profiles) == FileOf(TRUE, TRUE, FALSE, TRUE, profiles)

\* What ?.lastContext?.namespace of a profile can be.
ProfileValues == NamespaceNames \cup {Undefined, ""}

AllProfiles == UNION {[1..n -> ProfileValues] : n \in 0..MaxProfiles}

AllFiles ==
    {UnreadableFile, MalformedFile, EmptyFile, NoProfilesFile}
        \cup {ProfilesFile(p) : p \in AllProfiles}

\* Pods and answers of listNamespacedPod.
RunningPod(name, containers) ==
    [hasMetadata |-> TRUE, name |-> name, hasSpec |-> TRUE, hasStatus |-> TRUE,
     phase |-> "Running", containers |-> containers]

PodList(items) == [ok |-> TRUE, items |-> items]
QueryFails == [ok |-> FALSE, items |-> <<>>]

ClusterOf(web, db) == [n \in NamespaceNames |-> IF n = "web" THEN web ELSE db]

\* The containers a cluster holds, over all its namespaces.
RECURSIVE ContainerSetOf(_, _)
ContainerSetOf(cl, names) ==
    IF names = {} THEN {}
    ELSE LET n == CHOOSE x \in names : TRUE
             cs == getReplacedContainersInNamespace(n, cl[n].items)
         IN {cs[k] : k \in 1..Len(cs)} \cup ContainerSetOf(cl, names \ {n})

ContainersIn(cl) == ContainerSetOf(cl, NamespaceNames)

\* Behaviours of exec in a container: the status callback is invoked with a
\* status after stdout received the process table; the connection fails and
\* the promise exec returns rejects; or the exchange never answers.
Callback(status, table) == [mode |-> "callback", status |-> status, table |-> table]
ConnectionFails == [mode |-> "connfail", status |-> "Failure", table |-> <<>>]
NoResponse == [mode |-> "noresponse", status |-> "Failure", table |-> <<>>]

IdleTable == <<"COMMAND">>
SyncTable == <<"COMMAND", "/tmp/devspacehelper sync --initial">>

\* Command lines of processes.
ProcLines ==
    {"COMMAND", "sh -c /tmp/devspacehelper sync",
     "/tmp/devspacehelper restart", "/tmp/devspacehelper sync",
     "/tmp/devspacehelper sync --initial", "/tmp/devspacehelper syncfoo"}

AllTables == UNION {[1..n -> ProcLines] : n \in 0..MaxLines}

AllBehaviours ==
    {ConnectionFails, NoResponse}
        \cup {Callback(st, t) : st \in {"Success", "Failure"}, t \in AllTables}

FewBehaviours ==
    {ConnectionFails, Callback("Success", IdleTable),
     Callback("Success", SyncTable)}

\* Outcome, tabulated over the behaviours of exec that answer: what the
\* callback computes from the status and the stdout of behaviour e.
OutcomeOf ==
    [e \in {b \in AllBehaviours \cup FewBehaviours : b.mode = "callback"} |->
        Outcome(e.status, PsOutput(e.table))]

EnvOf(file, cl, ex) == [stateFile |-> file, cluster |-> cl, execEnv |-> ex]

WebDbFiles == {ProfilesFile(<<"web", "db">>), ProfilesFile(<<"db", "web">>)}

\* Clusters of running pods, of at most MaxContainers containers.
PodA1 == RunningPod("pod-a", <<"app">>)
PodA2 == RunningPod("pod-a", <<"app", "sidecar">>)
PodB1 == RunningPod("pod-b", <<"app">>)

RunningClusters ==
    {cl \in {ClusterOf(PodList(<<>>), PodList(<<>>)),
             ClusterOf(PodList(<<PodA1>>), PodList(<<>>)),
             ClusterOf(PodList(<<PodA1>>), PodList(<<PodB1>>)),
             ClusterOf(PodList(<<PodA1, PodB1>>), PodList(<<>>)),
             ClusterOf(PodList(<<PodA2>>), PodList(<<PodB1>>)),
             ClusterOf(PodList(<<PodA1>>), PodList(<<PodA1>>)),
             ClusterOf(PodList(<<PodA2>>), PodList(<<PodA2>>))} :
        Cardinality(ContainersIn(cl)) <= MaxContainers}

\* Environments in which every step of the program can happen: one
\* container has a sync running, the exchange with the other one fails or
\* never answers; and the same cluster under a state file without profiles.
BaseEnvs ==
    LET cl == ClusterOf(PodList(<<PodA1>>), PodList(<<PodB1>>))
    IN {EnvOf(f, cl, [c \in ContainersIn(cl) |->
                         IF c.namespace = n THEN b
                         ELSE Callback("Success", SyncTable)]) :
           f \in WebDbFiles \cup {NoProfilesFile}, n \in NamespaceNames,
           b \in {ConnectionFails, NoResponse}}

\* Aggregation: every assignment of a behaviour to every container; the
\* clusters of more than two containers under one order of the namespaces.
AggregationEnvs ==
    UNION {{EnvOf(f, cl, ex) :
               f \in IF Cardinality(ContainersIn(cl)) > 2
                     THEN {ProfilesFile(<<"web", "db">>)} ELSE WebDbFiles,
               ex \in [ContainersIn(cl) -> FewBehaviours]} :
           cl \in RunningClusters}

\* State files: every file, over one cluster.
FileEnvs ==
    LET cl == ClusterOf(PodList(<<PodA1>>), PodList(<<PodB1>>))
    IN {EnvOf(f, cl, ex) : f \in AllFiles,
                           ex \in [ContainersIn(cl) ->
                                      {Callback("Success", IdleTable),
                                       Callback("Success", SyncTable)}]}

\* Cluster queries: each namespace answers or fails.
ClusterEnvs ==
    UNION {{EnvOf(f, cl, ex) :
               f \in WebDbFiles \cup {ProfilesFile(<<"web">>)},
               ex \in [ContainersIn(cl) ->
                          {Callback("Success", IdleTable),
                           Callback("Success", SyncTable)}]} :
           cl \in {ClusterOf(w, d) :
                      w \in {QueryFails, PodList(<<>>), PodList(<<PodA1>>)},
                      d \in {QueryFails, PodList(<<>>), PodList(<<PodB1>>)}}}

\* Pods as listNamespacedPod may return them: running pods, and pods
\* without metadata, without a name, with an empty name, without a spec,
\* without a status, or in another phase.
PodOf(hasMetadata, name, hasSpec, hasStatus, phase, containers) ==
    [hasMetadata |-> hasMetadata, name |-> name, hasSpec |-> hasSpec,
     hasStatus |-> hasStatus, phase |-> phase, containers |-> containers]

AllPods ==
    {PodA1, PodA2, PodB1,
     PodOf(FALSE, Undefined, TRUE, TRUE, "Running", <<"app">>),
     PodOf(TRUE, Undefined, TRUE, TRUE, "Running", <<"app">>),
     PodOf(TRUE, "", TRUE, TRUE, "Running", <<"app">>),
     PodOf(TRUE, "pod-c", FALSE, TRUE, "Running", <<>>),
     PodOf(TRUE, "pod-c", TRUE, FALSE, Undefined, <<"app">>),
     PodOf(TRUE, "pod-c", TRUE, TRUE, "Pending", <<"app", "sidecar">>),
     PodOf(TRUE, "pod-c", TRUE, TRUE, "Succeeded", <<"app">>)}

\* Pod lists of at most MaxPods pods, the names of the pods unique.
AllPodLists ==
    {items \in UNION {[1..n -> AllPods] : n \in 0..MaxPods} :
        \A k, l \in 1..Len(items) :
            (k # l /\ Truthy(items[k].name)) => items[k].name # items[l].name}

\* Pod lists: every pod list in one namespace; no exec answers.
PodEnvs ==
    UNION {{EnvOf(ProfilesFile(<<"web">>), cl,
                  [c \in ContainersIn(cl) |-> NoResponse])} :
           cl \in {ClusterOf(PodList(items), PodList(<<>>)) :
                      items \in AllPodLists}}

\* Responding exchanges: a container in each namespace, every exec invokes
\* its status callback.
RespondingEnvs ==
    LET cl == ClusterOf(PodList(<<PodA1>>), PodList(<<PodB1>>)) IN
    {EnvOf(f, cl, ex) :
        f \in WebDbFiles,
        ex \in [ContainersIn(cl) ->
                  {Callback("Success", IdleTable), Callback("Success", SyncTable)}]}

\* Pod lists of running pods, the pod names unique within the list and the
\* container names unique within each pod.
UniquePodLists ==
    {<<>>, <<PodA1>>, <<PodA2>>, <<PodA2, PodB1>>, <<PodB1, PodA1>>}

\* Tuples: every state file with profiles over every pair of such pod
\* lists, so that pod and container names recur across namespaces; no exec
\* answers.
TupleEnvs ==
    UNION {{EnvOf(ProfilesFile(p), cl, [c \in ContainersIn(cl) |-> NoResponse]) :
               p \in AllProfiles} :
           cl \in {ClusterOf(PodList(w), PodList(d)) :
                      w \in UniquePodLists, d \in UniquePodLists}}

\* Probes: one container, every behaviour of exec.
ProbeEnvs ==
    LET cl == ClusterOf(PodList(<<PodA1>>), PodList(<<>>))
    IN {EnvOf(ProfilesFile(<<"web">>), cl, ex) :
           ex \in [ContainersIn(cl) -> AllBehaviours]}

---------------------------------------------------------------------------
\* The frame of one updateStatusBar() call and its steps.

\* A call that has not been triggered yet.  Three fields are history, not
\* program state: written holds the text the call assigned to the indicator
\* (none, or one), endedBefore the calls that had ended when this one was
\* triggered, and outOfOrder tells that one of its probes settled positive
\* while a probe earlier in the list was still unsettled.
IdleCall ==
    [pc |-> "idle", namespaces |-> <<>>, nsIdx |-> 1,
     containersToCheck |-> <<>>, checks |-> <<>>, pos |-> 1,
     error |-> "", written |-> <<>>, endedBefore |-> {}, outOfOrder |-> FALSE]

Ended(f) == f.pc \in {"done", "failed"}

\* A throw that nothing in updateStatusBar catches: the call rejects.
Reject(f, e) == [f EXCEPT !.pc = "failed", !.error = e]

\* Lines 57-59 and 64-65: the indicator is assigned and shown, the call returns.
WriteAndReturn(f, text) ==
    [f EXCEPT !.pc = "done", !.written = Append(f.written, text)]

\* Line 145-183 up to the exec call: the probe is dispatched; its promise is
\* pending (no value) and the remote exchange is open.
checkSyncCmdRunning(container) ==
    [container |-> container, exchange |-> "open", value |-> <<>>]

\* Line 51: the head of the loop over checks, at position f.pos.
ConsumeChecks(f) ==
    IF f.pos > Len(f.checks)
    THEN WriteAndReturn(f, NoSyncText)
    ELSE [f EXCEPT !.pc = "awaitCheck"]

\* DispatchChecks one probe at a time: only the probe of the first container
\* is dispatched before the loop over checks begins.
DispatchChecksFirstOnly(f) ==
    ConsumeChecks(
        [f EXCEPT !.checks = [k \in 1..(IF f.containersToCheck = <<>> THEN 0 ELSE 1) |->
                                 checkSyncCmdRunning(f.containersToCheck[k])],
                  !.pos = 1])

\* Line 50: every probe is dispatched, then the loop over checks begins.
DispatchChecks(f) ==
    ConsumeChecks(
        [f EXCEPT !.checks = [k \in 1..Len(f.containersToCheck) |->
                                 checkSyncCmdRunning(f.containersToCheck[k])],
                  !.pos = 1])

\* Line 45: the head of the loop over namespaces, at position f.nsIdx.
EnumerateNamespaces(f) ==
    IF f.nsIdx <= Len(f.namespaces)
    THEN [f EXCEPT !.pc = "listPods"]
    ELSE DispatchChecks(f)

\* StatusBarAfter with the first result kept: a call that ends while the
\* indicator is already shown does not write it.
StatusBarAfterFirstWins(f, g) ==
    IF g.pc = "done" /\ f.pc # "done" /\ ~statusBar.visible
    THEN [text |-> g.written[Len(g.written)], visible |-> TRUE]
    ELSE statusBar

\* The indicator after a step that took call frame f to g.
StatusBarAfter(f, g) ==
    IF g.pc = "done" /\ f.pc # "done"
    THEN [text |-> g.written[Len(g.written)], visible |-> TRUE]
    ELSE statusBar

\* Lines 30-32 and 41-42: the command is run; the call waits for readFile.
Trigger(i) ==
    /\ calls[i].pc = "idle"
    /\ i > 1 => calls[i - 1].pc # "idle"
    /\ calls' = [calls EXCEPT ![i] =
                    [@ EXCEPT !.pc = "readFile",
                              !.endedBefore = {j \in Invocations : Ended(calls[j])}]]
    /\ UNCHANGED <<stateFile, cluster, execEnv, epoch, statusBar>>

\* Lines 42-45: readFile settles; the namespaces are loaded or the call
\* rejects; with no namespace the call runs on to its end.
ReadFileSettles(i) ==
    /\ calls[i].pc = "readFile"
    /\ LET f == calls[i]
           r == getLastDevspaceNamespaces(stateFile)
           g == IF r.ok
                THEN EnumerateNamespaces(
                        [f EXCEPT !.namespaces = r.namespaces, !.nsIdx = 1,
                                  !.containersToCheck = <<>>])
                ELSE Reject(f, r.error)
       IN /\ calls' = [calls EXCEPT ![i] = g]
          /\ statusBar' = StatusBarAfter(f, g)
    /\ UNCHANGED <<stateFile, cluster, execEnv, epoch>>

\* Lines 46-51 and 106-138: listNamespacedPod settles for the namespace at
\* nsIdx; its containers are appended, or the call rejects.
ListPodsSettles(i) ==
    /\ calls[i].pc = "listPods"
    /\ LET f == calls[i]
           n == f.namespaces[f.nsIdx]
           g == IF cluster[n].ok
                THEN EnumerateNamespaces(
                        [f EXCEPT !.containersToCheck =
                                      @ \o getReplacedContainersInNamespace(
                                               n, cluster[n].items),
                                  !.nsIdx = @ + 1])
                ELSE Reject(f, ClusterQueryError)
       IN /\ calls' = [calls EXCEPT ![i] = g]
          /\ statusBar' = StatusBarAfter(f, g)
    /\ UNCHANGED <<stateFile, cluster, execEnv, epoch>>

\* StatusCallback with the probes of a call cancelled at the call's return:
\* no status callback is invoked for a call that has ended.
StatusCallbackUnlessEnded(i, j) ==
    /\ j \in 1..Len(calls[i].checks)
    /\ calls[i].pc # "done"
    /\ calls[i].checks[j].exchange = "open"
    /\ LET c == calls[i].checks[j].container
           e == execEnv[c]
       IN /\ e.mode = "callback"
          /\ calls' = [calls EXCEPT
                ![i].checks[j] = [@ EXCEPT !.exchange = "closed",
                                           !.value = <<ProbeResult(c, OutcomeOf[e])>>]]
    /\ UNCHANGED <<stateFile, cluster, execEnv, epoch, statusBar>>

\* Lines 158-181: the status callback of probe j of call i is invoked; the
\* probe's promise is resolved.
StatusCallback(i, j) ==
    /\ j \in 1..Len(calls[i].checks)
    /\ calls[i].checks[j].exchange = "open"
    /\ LET c == calls[i].checks[j].container
           e == execEnv[c]
       IN /\ e.mode = "callback"
          /\ LET v == ProbeResult(c, OutcomeOf[e]) IN
             calls' = [calls EXCEPT
                ![i].checks[j] = [@ EXCEPT !.exchange = "closed", !.value = <<v>>],
                ![i].outOfOrder =
                    \/ @
                    \/ /\ v.syncRunning
                       /\ \E k \in 1..(j - 1) : calls[i].checks[k].value = <<>>]
    /\ UNCHANGED <<stateFile, cluster, execEnv, epoch, statusBar>>

\* Lines 148-183: the promise exec returns rejects (the connection failed);
\* the status callback is never invoked and nothing handles the rejection.
ExecFails(i, j) ==
    /\ j \in 1..Len(calls[i].checks)
    /\ calls[i].checks[j].exchange = "open"
    /\ execEnv[calls[i].checks[j].container].mode = "connfail"
    /\ calls' = [calls EXCEPT ![i].checks[j].exchange = "failed"]
    /\ UNCHANGED <<stateFile, cluster, execEnv, epoch, statusBar>>

\* AwaitResumes with the outcomes consumed as they arrive: the call returns
\* on any settled positive probe, and with "No Sync" once all have settled.
AwaitResumesAnySettled(i) ==
    /\ calls[i].pc = "awaitCheck"
    /\ LET f == calls[i]
           settled == {j \in 1..Len(f.checks) : f.checks[j].value # <<>>}
           positive == {j \in settled : f.checks[j].value[1].syncRunning}
       IN /\ positive # {} \/ settled = 1..Len(f.checks)
          /\ \E g \in IF positive = {}
                       THEN {WriteAndReturn(f, NoSyncText)}
                       ELSE {WriteAndReturn(
                                f, SyncToText(f.checks[j].value[1].podName)) :
                                j \in positive} :
                /\ calls' = [calls EXCEPT ![i] = g]
                /\ statusBar' = StatusBarAfter(f, g)
    /\ UNCHANGED <<stateFile, cluster, execEnv, epoch>>

\* AwaitResumes with the test of line 56 negated.
AwaitResumesNegated(i) ==
    /\ calls[i].pc = "awaitCheck"
    /\ calls[i].checks[calls[i].pos].value # <<>>
    /\ LET f == calls[i]
           v == f.checks[f.pos].value[1]
           g == IF ~v.syncRunning
                THEN WriteAndReturn(f, SyncToText(v.podName))
                ELSE ConsumeChecks([f EXCEPT !.pos = @ + 1])
       IN /\ calls' = [calls EXCEPT ![i] = g]
          /\ statusBar' = StatusBarAfter(f, g)
    /\ UNCHANGED <<stateFile, cluster, execEnv, epoch>>

\* AwaitResumes with the final assignment of line 64 moved into the loop
\* as the else branch of line 56: the first negative probe ends the call.
AwaitResumesElseBranch(i) ==
    /\ calls[i].pc = "awaitCheck"
    /\ calls[i].checks[calls[i].pos].value # <<>>
    /\ LET f == calls[i]
           v == f.checks[f.pos].value[1]
           g == IF v.syncRunning
                THEN WriteAndReturn(f, SyncToText(v.podName))
                ELSE WriteAndReturn(f, NoSyncText)
       IN /\ calls' = [calls EXCEPT ![i] = g]
          /\ statusBar' = StatusBarAfter(f, g)
    /\ UNCHANGED <<stateFile, cluster, execEnv, epoch>>

\* Lines 51-65: the awaited probe has settled; the loop body runs for it.
AwaitResumes(i) ==
    /\ calls[i].pc = "awaitCheck"
    /\ calls[i].checks[calls[i].pos].value # <<>>
    /\ LET f == calls[i]
           v == f.checks[f.pos].value[1]
           g == IF v.syncRunning
                THEN WriteAndReturn(f, SyncToText(v.podName))
                ELSE ConsumeChecks([f EXCEPT !.pos = @ + 1])
       IN /\ calls' = [calls EXCEPT ![i] = g]
          /\ statusBar' = StatusBarAfter(f, g)
    /\ UNCHANGED <<stateFile, cluster, execEnv, epoch>>

\* The environment: the development session ends; in every container that
\* answers only the processes that do not belong to it are left.
SessionEnds ==
    /\ epoch = 0
    /\ epoch' = 1
    /\ execEnv' = [c \in DOMAIN execEnv |->
                      IF execEnv[c].mode = "callback"
                      THEN [execEnv[c] EXCEPT !.table = IdleTable]
                      ELSE execEnv[c]]
    /\ execEnv' # execEnv
    /\ UNCHANGED <<stateFile, cluster, statusBar, calls>>

Next ==
    \/ \E i \in Invocations : Trigger(i)
    \/ \E i \in Invocations : ReadFileSettles(i)
    \/ \E i \in Invocations : ListPodsSettles(i)
    \/ \E i \in Invocations : \E j \in 1..Len(calls[i].checks) : StatusCallback(i, j)
    \/ \E i \in Invocations : \E j \in 1..Len(calls[i].checks) : ExecFails(i, j)
    \/ \E i \in Invocations : AwaitResumes(i)
    \/ SessionEnds

---------------------------------------------------------------------------
\* Initial states and specifications.

InitIn(envs) ==
    /\ \E e \in envs :
          /\ stateFile = e.stateFile
          /\ cluster = e.cluster
          /\ execEnv = e.execEnv
    /\ epoch = 0
    /\ statusBar = InitialStatusBar
    /\ calls = [i \in Invocations |-> IdleCall]

Init == InitIn(BaseEnvs \cup AggregationEnvs)
InitFile == InitIn(BaseEnvs \cup FileEnvs)
InitCluster == InitIn(BaseEnvs \cup ClusterEnvs)
InitProbe == InitIn(BaseEnvs \cup ProbeEnvs)
InitList == InitIn(BaseEnvs \cup PodEnvs)
InitLive == InitIn(BaseEnvs \cup RespondingEnvs)
InitTuples == InitIn(BaseEnvs \cup TupleEnvs)

Spec == Init /\ [][Next]_vars
SpecFile == InitFile /\ [][Next]_vars
SpecCluster == InitCluster /\ [][Next]_vars
SpecProbe == InitProbe /\ [][Next]_vars
SpecList == InitList /\ [][Next]_vars
SpecTuples == InitTuples /\ [][Next]_vars

\* The event loop runs every continuation that is ready: the file read and
\* the pod-list query always answer, a status callback that the exec
\* environment delivers is delivered, and a call whose awaited promise is
\* resolved resumes. Nothing obliges a trigger, a failing connection or the
\* end of a sync session to happen.
EventLoopRuns ==
    \A i \in Invocations :
        /\ WF_vars(ReadFileSettles(i))
        /\ WF_vars(ListPodsSettles(i))
        /\ WF_vars(AwaitResumes(i))
        /\ \A j \in 1..MaxContainers : WF_vars(StatusCallback(i, j))

SpecLive == InitLive /\ [][Next]_vars /\ EventLoopRuns

---------------------------------------------------------------------------
\* Properties.

\* The process table of container c shows a sync to a probe: exec answers
\* with status Success and a line with the signature.
SyncVisible(c) ==
    /\ execEnv[c].mode = "callback"
    /\ execEnv[c].status = "Success"
    /\ \E k \in 1..Len(execEnv[c].table) : StartsWith(execEnv[c].table[k], Signature)

\* The positions of the container list of frame f whose probe yields
\* syncRunning = true in the environment as it is.
PositivePositions(f) ==
    {k \in 1..Len(f.containersToCheck) : SyncVisible(f.containersToCheck[k])}

Min(S) == CHOOSE x \in S : \A y \in S : x <= y

\* C1: while the environment is unchanged, a call whose container list has
\* exactly one position k with a positive probe does not end in any other
\* way than with "Sync to" the pod of the container at position k, whatever
\* the order in which the probes settled.
C1_OnlyPositiveIsReported ==
    epoch = 0 =>
        \A i \in Invocations :
            LET f == calls[i] IN
            (Ended(f) /\ Cardinality(PositivePositions(f)) = 1) =>
                /\ f.pc = "done"
                /\ f.written =
                     <<SyncToText(f.containersToCheck[Min(PositivePositions(f))].podName)>>

\* C1 witness: a call ended on the only positive probe, at position 2 or
\* later, which had settled while an earlier probe was still unsettled.
C1_Witness ==
    /\ epoch = 0
    /\ \E i \in Invocations :
          LET f == calls[i] IN
          /\ f.pc = "done"
          /\ \E k \in 2..Len(f.containersToCheck) :
                /\ PositivePositions(f) = {k}
                /\ f.written = <<SyncToText(f.containersToCheck[k].podName)>>
          /\ f.outOfOrder

\* C2: while the environment is unchanged, a call whose container list has
\* two or more positions with a positive probe does not end in any other way
\* than with "Sync to" the pod of the smallest of these positions.
C2_EarliestListedPositiveWins ==
    epoch = 0 =>
        \A i \in Invocations :
            LET f == calls[i] IN
            (Ended(f) /\ Cardinality(PositivePositions(f)) >= 2) =>
                /\ f.pc = "done"
                /\ f.written =
                     <<SyncToText(f.containersToCheck[Min(PositivePositions(f))].podName)>>

\* C2 witness: two positive probes of different pods; the later-listed one
\* settled while the earlier-listed one was unsettled, and the call ended
\* with the pod of the earlier-listed one.
C2_Witness ==
    /\ epoch = 0
    /\ \E i \in Invocations :
          LET f == calls[i] IN
          /\ f.pc = "done"
          /\ f.outOfOrder
          /\ PositivePositions(f) = {1, 2}
          /\ f.containersToCheck[1].podName # f.containersToCheck[2].podName
          /\ f.written = <<SyncToText(f.containersToCheck[1].podName)>>

\* Every probe of frame f has settled with syncRunning = false.
AllSettledNegative(f) ==
    \A j \in 1..Len(f.checks) :
        /\ f.checks[j].value # <<>>
        /\ ~f.checks[j].value[1].syncRunning

\* C3: a call that has returned and whose probes (none, when its container
\* list is empty, or all of them) settled with syncRunning = false has
\* assigned "No Sync" to the indicator, and no other text, and shown it.
C3_AllNegativeIsNoSync ==
    \A i \in Invocations :
        LET f == calls[i] IN
        (f.pc = "done" /\ AllSettledNegative(f)) =>
            /\ f.written = <<NoSyncText>>
            /\ statusBar.visible

\* C3 witness: a call over a list of two negative probes ended with
\* "No Sync", which the indicator shows.
C3_Witness ==
    /\ \E i \in Invocations :
          /\ calls[i].pc = "done"
          /\ Len(calls[i].checks) >= 2
          /\ AllSettledNegative(calls[i])
          /\ calls[i].written = <<NoSyncText>>
          /\ statusBar.text = NoSyncText

\* C4: every probe whose remote exchange has ended has its promise resolved,
\* and a probe whose exec call failed is resolved with syncRunning = false.
C4_ProbeAlwaysSettles ==
    \A i \in Invocations :
        \A j \in 1..Len(calls[i].checks) :
            LET p == calls[i].checks[j] IN
            p.exchange # "open" =>
                /\ p.value # <<>>
                /\ p.exchange = "failed" => ~p.value[1].syncRunning

\* The state file cannot be read or cannot be parsed.
StateFileBroken == ~stateFile.readable \/ ~stateFile.parses

\* C5: with a state file that cannot be read, or cannot be parsed, a call
\* that is past readFile has failed with StateFileUnavailable, or with
\* StateFileMalformed; it has no namespace, no container and no probe, it
\* assigned no text and the indicator is as it was created; and a failed
\* call takes no further step.
C5_StateFileErrorAborts ==
    /\ [](\A i \in Invocations :
            LET f == calls[i] IN
            (StateFileBroken /\ f.pc \notin {"idle", "readFile"}) =>
                /\ f.pc = "failed"
                /\ f.error = IF ~stateFile.readable THEN StateFileUnavailable
                             ELSE StateFileMalformed
                /\ f.namespaces = <<>>
                /\ f.containersToCheck = <<>>
                /\ f.checks = <<>>
                /\ f.written = <<>>
                /\ statusBar = InitialStatusBar)
    /\ [][\A i \in Invocations :
            calls[i].pc = "failed" => calls'[i] = calls[i]]_vars

\* C5 witness: two calls over an unreadable state file have both failed
\* with StateFileUnavailable and the indicator is as it was created.
C5_Witness ==
    /\ ~stateFile.readable
    /\ \A i \in Invocations :
          calls[i].pc = "failed" /\ calls[i].error = StateFileUnavailable
    /\ statusBar = InitialStatusBar

\* The state file parses and names no namespace: it is empty, has no
\* profiles, or none of its profiles has a lastContext.namespace.
NoNamespaceInFile ==
    /\ stateFile.readable
    /\ stateFile.parses
    /\ \/ stateFile.document.isNull
       \/ ~stateFile.document.hasProfiles
       \/ \A k \in 1..Len(stateFile.document.profiles) :
             stateFile.document.profiles[k] \in {Undefined, ""}

\* C6: with a state file that parses and names no namespace, a call that is
\* past readFile has returned with "No Sync".
C6_NoNamespaceIsNoSync ==
    \A i \in Invocations :
        (NoNamespaceInFile /\ calls[i].pc \notin {"idle", "readFile"}) =>
            /\ calls[i].pc = "done"
            /\ calls[i].written = <<NoSyncText>>

\* C7: no call fails on a cluster query: a call that has gone through the
\* namespace of a failed query is listing the next namespace, awaiting its
\* probes or has returned with a status.
C7_ClusterQueryFailureIsNotFatal ==
    \A i \in Invocations :
        ~(calls[i].pc = "failed" /\ calls[i].error = ClusterQueryError)

\* C8: while the environment is unchanged, a call triggered after another
\* call had ended ends as that one did (same text assigned, or same error)
\* over the same namespaces and the same container list, with one probe per
\* container.
C8_ConsecutiveCallsAgree ==
    epoch = 0 =>
        \A i, j \in Invocations :
            (i \in calls[j].endedBefore /\ Ended(calls[j])) =>
                /\ calls[j].pc = calls[i].pc
                /\ calls[j].written = calls[i].written
                /\ calls[j].error = calls[i].error
                /\ calls[j].namespaces = calls[i].namespaces
                /\ calls[j].containersToCheck = calls[i].containersToCheck
                /\ Len(calls[j].checks) = Len(calls[j].containersToCheck)

\* C8 witness: two consecutive calls over two positive probes returned with
\* the same pod, the probes having settled in list order in one call and
\* out of list order in the other.
C8_Witness ==
    /\ epoch = 0
    /\ \E i, j \in Invocations :
          /\ i \in calls[j].endedBefore
          /\ calls[i].pc = "done" /\ calls[j].pc = "done"
          /\ Cardinality(PositivePositions(calls[j])) >= 2
          /\ calls[i].outOfOrder # calls[j].outOfOrder
          /\ calls[i].written = calls[j].written
          /\ calls[j].written # <<NoSyncText>>

\* The settled probes: <<call, position>>.
SettledProbes ==
    UNION {{<<i, j>> : j \in {k \in 1..Len(calls[i].checks) :
                                 calls[i].checks[k].value # <<>>}} :
           i \in Invocations}

\* The lines of a process table that start with the signature.
SignatureLines(table) == {k \in 1..Len(table) : StartsWith(table[k], Signature)}

\* C9: the value of a settled probe has a command only if its syncRunning
\* is true; and, while the environment is unchanged, it is the container
\* with syncRunning = false and no command when exec answered with a status
\* other than Success, with empty output, or with no line that starts with
\* the signature.
C9_NegativeHasNoCommand ==
    \A ij \in SettledProbes :
        LET p == calls[ij[1]].checks[ij[2]]
            e == execEnv[p.container]
        IN /\ "command" \in DOMAIN p.value[1] => p.value[1].syncRunning
           /\ (epoch = 0 /\ (\/ e.status # "Success"
                             \/ e.table = <<>>
                             \/ SignatureLines(e.table) = {})) =>
                 /\ DOMAIN p.value[1] = DOMAIN p.container \cup {"syncRunning"}
                 /\ ~p.value[1].syncRunning

\* C9 witness: a probe settled negative on a status other than Success
\* although the output has a line with the signature.
C9_Witness ==
    /\ epoch = 0
    /\ \E ij \in SettledProbes :
          LET p == calls[ij[1]].checks[ij[2]]
              e == execEnv[p.container]
          IN /\ e.status # "Success"
             /\ SignatureLines(e.table) # {}
             /\ ~p.value[1].syncRunning

\* C10: while the environment is unchanged, the value of a settled probe
\* whose exec answered with status Success and an output with a line that
\* starts with the signature is the container with syncRunning = true and
\* with the first such line, whole, as command.
C10_FirstMatchIsCommand ==
    epoch = 0 =>
        \A ij \in SettledProbes :
            LET p == calls[ij[1]].checks[ij[2]]
                e == execEnv[p.container]
            IN (e.status = "Success" /\ SignatureLines(e.table) # {}) =>
                  /\ p.value[1].syncRunning
                  /\ p.value[1].command = e.table[Min(SignatureLines(e.table))]
                  /\ \A fld \in DOMAIN p.container :
                        p.value[1][fld] = p.container[fld]

\* C10 witness: the output has two different lines with the signature and
\* the command of the probe is the first of them.
C10_Witness ==
    /\ epoch = 0
    /\ \E ij \in SettledProbes :
          LET p == calls[ij[1]].checks[ij[2]]
              e == execEnv[p.container]
          IN /\ e.status = "Success"
             /\ SignatureLines(e.table) = {1, 2}
             /\ e.table[1] # e.table[2]
             /\ p.value[1].command = e.table[1]

\* The <<pod, container>> index pairs of a pod list that stand for a
\* declared container of a pod with metadata, a name, a spec and the phase
\* Running.
LivePairs(items) ==
    UNION {{<<p, q>> : q \in 1..Len(items[p].containers)} :
           p \in {k \in 1..Len(items) :
                    /\ items[k].hasMetadata /\ Truthy(items[k].name)
                    /\ items[k].hasSpec /\ items[k].hasStatus
                    /\ items[k].phase = "Running"}}

\* The place of a pair in pod order, then container order.
RankIn(pairs, pq) ==
    Cardinality({x \in pairs :
                    x[1] < pq[1] \/ (x[1] = pq[1] /\ x[2] <= pq[2])})

\* C11: a call that has listed the pods of its only namespace has not
\* failed, and its container list holds exactly one Container for every
\* declared container of every pod with metadata, a name, a spec and the
\* phase Running, in pod order, then container order, and nothing else.
C11_OneContainerPerRunningPodContainer ==
    \A i \in Invocations :
        LET f == calls[i] IN
        (f.namespaces = <<"web">> /\ f.pc \notin {"idle", "readFile", "listPods"}) =>
            LET items == cluster["web"].items
                pairs == LivePairs(items)
            IN /\ cluster["web"].ok => f.pc # "failed"
               /\ f.pc # "failed" =>
                    /\ Len(f.containersToCheck) = Cardinality(pairs)
                    /\ \A pq \in pairs :
                          f.containersToCheck[RankIn(pairs, pq)] =
                             [namespace |-> "web",
                              podName |-> items[pq[1]].name,
                              containerName |-> items[pq[1]].containers[pq[2]]]

\* C11 witness: a pod list with a pod that is not running before a running
\* pod of two containers; the call lists the two containers of that pod.
C11_Witness ==
    \E i \in Invocations :
        /\ calls[i].pc = "awaitCheck"
        /\ calls[i].namespaces = <<"web">>
        /\ Len(cluster["web"].items) = 2
        /\ cluster["web"].items[1].phase # "Running"
        /\ Len(cluster["web"].items[1].containers) = 2
        /\ cluster["web"].items[2] = PodA2
        /\ Len(calls[i].containersToCheck) = 2
        /\ calls[i].containersToCheck[2].containerName = "sidecar"

\* How often a value occurs in a sequence.
Occurrences(seq, x) == Cardinality({k \in 1..Len(seq) : seq[k] = x})

\* C12: a call that has read a state file with profiles holds every
\* remembered namespace once, however many profiles name it, and a call
\* that has gone through its namespaces has listed the pods of each of
\* them once: it holds as many containers of the namespace as one query of
\* that namespace returns.
C12_RepeatedNamespaceOnce ==
    \A i \in Invocations :
        LET f == calls[i]
            profiles == stateFile.document.profiles
        IN (getLastDevspaceNamespaces(stateFile).ok
               /\ f.pc \in {"listPods", "awaitCheck", "done"}) =>
              \A p \in 1..Len(profiles) :
                 Truthy(profiles[p]) =>
                    /\ Occurrences(f.namespaces, profiles[p]) = 1
                    /\ f.pc \in {"awaitCheck", "done"} =>
                          Cardinality({k \in 1..Len(f.containersToCheck) :
                                          f.containersToCheck[k].namespace = profiles[p]})
                             = Len(getReplacedContainersInNamespace(
                                      profiles[p], cluster[profiles[p]].items))

\* C12 witness: two profiles remember the same namespace, and a call has
\* ended with the one container of that namespace in its list.
C12_Witness ==
    \E i \in Invocations :
        /\ stateFile = ProfilesFile(<<"web", "web">>)
        /\ calls[i].pc = "done"
        /\ calls[i].namespaces = <<"web">>
        /\ Len(calls[i].containersToCheck) = 1

\* A call that is past the loop over its namespaces.
PastEnumeration(f) == f.pc \in {"awaitCheck", "done"}

\* C13: within one call every listed container has exactly one probe, at
\* its own position; no probe exists before the pods of every namespace
\* have been listed; all probes are dispatched in one step, in which none of
\* them has been awaited or has settled; and the probes of a call never
\* change in number or in container afterwards, so that the containers
\* behind a positive one are probed as well.
C13_AllProbesDispatchedOnceUpFront ==
    /\ [](\A i \in Invocations :
            LET f == calls[i] IN
            /\ ~PastEnumeration(f) => f.checks = <<>>
            /\ PastEnumeration(f) =>
                  /\ f.nsIdx = Len(f.namespaces) + 1
                  /\ Len(f.checks) = Len(f.containersToCheck)
                  /\ \A k \in 1..Len(f.checks) :
                        f.checks[k].container = f.containersToCheck[k])
    /\ [][\A i \in Invocations :
            LET f == calls[i]
                g == calls'[i]
            IN /\ (~PastEnumeration(f) /\ PastEnumeration(g)) =>
                     \A k \in 1..Len(g.containersToCheck) :
                        /\ k \in 1..Len(g.checks)
                        /\ g.checks[k] = checkSyncCmdRunning(g.containersToCheck[k])
               /\ PastEnumeration(f) =>
                     /\ g.containersToCheck = f.containersToCheck
                     /\ Len(g.checks) = Len(f.checks)
                     /\ \A k \in 1..Len(f.checks) :
                           g.checks[k].container = f.checks[k].container]_vars

\* C13 witness: a call ended on the positive probe of its first container,
\* and the probe of the container behind it was dispatched and has settled.
C13_Witness ==
    \E i \in Invocations :
        /\ calls[i].pc = "done"
        /\ Len(calls[i].checks) = 2
        /\ calls[i].pos = 1
        /\ calls[i].written # <<NoSyncText>>
        /\ calls[i].checks[2].value # <<>>

\* C14: a call has assigned "Devspace: Sync to P" only if one of its own
\* probes, dispatched for a container of pod P, has settled with
\* syncRunning = true and with a command that begins with the signature; a
\* probe that failed, returned no output or no such line, or that belongs
\* to another call, is no ground for it.
C14_RunningOnlyOnOwnPositiveProbe ==
    \A i \in Invocations :
        LET f == calls[i] IN
        \A t \in 1..Len(f.written) :
            f.written[t] # NoSyncText =>
                \E j \in 1..Len(f.checks) :
                    /\ f.checks[j].exchange = "closed"
                    /\ f.checks[j].value # <<>>
                    /\ f.checks[j].value[1].syncRunning
                    /\ StartsWith(f.checks[j].value[1].command, Signature)
                    /\ f.written[t] = SyncToText(f.checks[j].container.podName)

\* C14 witness: two calls on the same containers, between them the sync
\* session ended: the first reported its pod, the second, whose own probes
\* were all negative, reported "No Sync".
C14_Witness ==
    \E i, k \in Invocations :
        /\ calls[i].pc = "done" /\ calls[k].pc = "done"
        /\ calls[i].containersToCheck = calls[k].containersToCheck
        /\ calls[i].written = <<SyncToText("pod-a")>>
        /\ calls[k].written = <<NoSyncText>>
        /\ AllSettledNegative(calls[k])

\* C15: the outcomes are examined in list order. A call that has ended
\* with a result stands at the position of its result: every probe before it
\* has settled negative, the probe at it has settled positive and names the
\* pod reported, or, once past the last position, the result is "No Sync".
\* A call steps past a position, or ends at it, only when the probe at that
\* position has settled, whatever later probes have settled with.
C15_OutcomesExaminedInListOrder ==
    /\ [](\A i \in Invocations :
            LET f == calls[i] IN
            f.pc = "done" =>
               /\ \A k \in 1..(f.pos - 1) :
                     /\ f.checks[k].value # <<>>
                     /\ ~f.checks[k].value[1].syncRunning
               /\ f.pos <= Len(f.checks) =>
                     /\ f.checks[f.pos].value # <<>>
                     /\ f.checks[f.pos].value[1].syncRunning
                     /\ f.written = <<SyncToText(f.checks[f.pos].container.podName)>>
               /\ f.pos > Len(f.checks) => f.written = <<NoSyncText>>)
    /\ [][\A i \in Invocations :
            LET f == calls[i]
                g == calls'[i]
            IN (f.pc = "awaitCheck" /\ (g.pc # "awaitCheck" \/ g.pos # f.pos)) =>
                  /\ f.checks[f.pos].value # <<>>
                  /\ g.pos >= f.pos]_vars

\* C15 witness: the second probe settled positive while the first was
\* pending; the call ended only after the first had settled negative, and
\* reported the pod of the second.
C15_Witness ==
    \E i \in Invocations :
        /\ calls[i].pc = "done"
        /\ calls[i].outOfOrder
        /\ calls[i].pos = 2
        /\ ~calls[i].checks[1].value[1].syncRunning
        /\ calls[i].written = <<SyncToText(calls[i].checks[2].container.podName)>>

\* A call that has ended on the positive probe at its position pos.
EndedOnPositive(f) == f.pc = "done" /\ f.pos <= Len(f.checks)

\* C16: the probes behind the positive one a call ended on are not
\* cancelled: while such a probe is in flight and its exec answers, its
\* status callback can still be invoked; and the step in which it settles
\* (or in which its connection fails) leaves the status of that call and the
\* text and visibility of the indicator as they were.
C16_LaterProbesRunOnHarmlessly ==
    /\ [](\A i \in Invocations :
            EndedOnPositive(calls[i]) =>
               \A j \in (calls[i].pos + 1)..Len(calls[i].checks) :
                  (/\ calls[i].checks[j].exchange = "open"
                   /\ execEnv[calls[i].checks[j].container].mode = "callback")
                      => ENABLED StatusCallback(i, j))
    /\ [][\A i \in Invocations :
            EndedOnPositive(calls[i]) =>
               \A j \in (calls[i].pos + 1)..Len(calls[i].checks) :
                  calls'[i].checks[j] # calls[i].checks[j] =>
                     /\ calls'[i].pc = calls[i].pc
                     /\ calls'[i].pos = calls[i].pos
                     /\ calls'[i].written = calls[i].written
                     /\ statusBar' = statusBar]_vars

\* C16 witness: a call has ended on its first probe and shown its pod while
\* its second probe is in flight, and that probe's status callback is still
\* to be invoked.
C16_Witness ==
    \E i \in Invocations :
        /\ EndedOnPositive(calls[i])
        /\ calls[i].pos = 1
        /\ Len(calls[i].checks) = 2
        /\ calls[i].checks[2].exchange = "open"
        /\ statusBar.text = SyncToText(calls[i].checks[1].container.podName)
        /\ ENABLED StatusCallback(i, 2)

\* The exec of every container invokes its status callback.
EveryExchangeResponds ==
    \A c \in DOMAIN execEnv : execEnv[c].mode = "callback"

\* Call i awaits, in list order, a probe whose exchange never responds.
AwaitsSilentProbe(i) ==
    /\ calls[i].pc = "awaitCheck"
    /\ calls[i].checks[calls[i].pos].value = <<>>
    /\ execEnv[calls[i].checks[calls[i].pos].container].mode = "noresponse"

C18_ContainerTuplesDistinct ==
    \A i \in Invocations :
        LET f == calls[i] IN
        /\ \A k, l \in 1..Len(f.containersToCheck) :
              k # l => f.containersToCheck[k] # f.containersToCheck[l]
        /\ \A k, l \in 1..Len(f.checks) :
              k # l => f.checks[k].container # f.checks[l].container

\* C18 witness: two profiles remember the same namespace, whose pods declare
\* three containers; the call has dispatched three probes. And the same pod
\* with the same containers in two namespaces gives four.
C18_Witness ==
    \E i \in Invocations :
        /\ calls[i].pc = "awaitCheck"
        /\ \/ /\ stateFile = ProfilesFile(<<"web", "web">>)
              /\ cluster["web"].items = <<PodA2, PodB1>>
              /\ Len(calls[i].checks) = 3
           \/ /\ stateFile = ProfilesFile(<<"web", "db">>)
              /\ cluster["web"].items = <<PodA2>>
              /\ cluster["db"].items = <<PodA2>>
              /\ Len(calls[i].checks) = 4

\* Call i returns from updateStatusBar in the step.
Returns(i) == calls[i].pc # "done" /\ calls'[i].pc = "done"

\* C19: every call, overlapping or not, goes through its own namespaces and
\* its own probes and writes the shared indicator once, in the step in which
\* it returns, text and visibility together; no other step changes the
\* indicator. Hence the text shown once all calls have ended is the one
\* assigned by the call that returned last, whichever was triggered first.
C19_EachCallWritesOnceAtItsEnd ==
    /\ [](\A i \in Invocations :
            LET f == calls[i] IN
            /\ f.pc = "done" =>
                  /\ Len(f.written) = 1
                  /\ f.nsIdx = Len(f.namespaces) + 1
                  /\ Len(f.checks) = Len(f.containersToCheck)
            /\ f.pc # "done" => f.written = <<>>)
    /\ [][/\ \A i \in Invocations :
               Returns(i) =>
                  statusBar' = [text |-> calls'[i].written[1], visible |-> TRUE]
          /\ (\A i \in Invocations : ~Returns(i)) => statusBar' = statusBar]_vars

\* C19 witness: the second call was triggered while the first was running;
\* both have ended with different texts, and the indicator shows the text of
\* the call triggered first, which returned last.
C19_Witness ==
    /\ calls[1].pc = "done" /\ calls[2].pc = "done"
    /\ 1 \notin calls[2].endedBefore
    /\ calls[1].written # calls[2].written
    /\ statusBar = [text |-> calls[1].written[1], visible |-> TRUE]

\* A line whose first token is "/tmp/devspacehelper" and whose second
\* token is "sync": the signature, at its end or followed by a blank.
SyncIsSecondToken(line) ==
    line = Signature \/ StartsWith(line, Signature \o " ")

\* C20: a probe that settled with syncRunning = true carries as command a
\* line whose first token is "/tmp/devspacehelper" and whose complete second
\* token is "sync". Violated: the process line
\* "/tmp/devspacehelper syncfoo" begins with the signature's characters and
\* is taken as a running sync.
C20_SyncIsACompleteToken ==
    \A i \in Invocations :
        \A j \in 1..Len(calls[i].checks) :
            LET c == calls[i].checks[j] IN
            (c.value # <<>> /\ c.value[1].syncRunning) =>
                SyncIsSecondToken(c.value[1].command)

=============================================================================
